---------------------------- MODULE Spec2Model ----------------------------
(***************************************************************************)
(* Model of the subtitlematcher package (krmmzs/subtitle-matcher).         *)
(*                                                                         *)
(* A string is a sequence of one-character strings, so that the byte-level *)
(* work of the package (path splitting, normalisation, the LCS table) is   *)
(* computed the way the Go code computes it.  A float64 similarity score   *)
(* is the reduced fraction <<lcs, maxLen>>; thresholds are tenths.         *)
(***************************************************************************)
EXTENDS Integers, Sequences, FiniteSets, TLC

(***************************************************************************)
(* Characters                                                              *)
(***************************************************************************)
Upper == <<"A", "B", "C", "D", "E", "F", "G", "H", "I", "J", "K", "L", "M",
           "N", "O", "P", "Q", "R", "S", "T", "U", "V", "W", "X", "Y", "Z">>

Lower == <<"a", "b", "c", "d", "e", "f", "g", "h", "i", "j", "k", "l", "m",
           "n", "o", "p", "q", "r", "s", "t", "u", "v", "w", "x", "y", "z">>

Digits == <<"0", "1", "2", "3", "4", "5", "6", "7", "8", "9">>

\* The full-width question mark U+FF1F, one element of a string here.
FullWidthQuestion == "FF1F"

\* The characters of the model in byte order (U+FF1F starts with byte 0xEF).
ByteOrder ==
    <<" ", "-", ".", "/">> \o Digits \o <<"?">> \o Upper \o
    <<"[", "]", "_">> \o Lower \o <<FullWidthQuestion>>

Range(s) == {s[i] : i \in 1..Len(s)}

\* The rank of each character in byte order.
Ord ==
    [c \in Range(ByteOrder) |->
        CHOOSE i \in 1..Len(ByteOrder) : ByteOrder[i] = c]

\* regexp class [A-Za-z0-9_-]
TagChars == Range(Upper) \cup Range(Lower) \cup Range(Digits) \cup {"_", "-"}

\* regexp class \s and unicode.IsSpace, restricted to the model's characters
SpaceChars == {" "}

(***************************************************************************)
(* strings.*                                                               *)
(***************************************************************************)
Drop(s, n) == SubSeq(s, n + 1, Len(s))

Take(s, n) == SubSeq(s, 1, n)

HasSuffix(s, suf) ==
    Len(s) >= Len(suf) /\ Drop(s, Len(s) - Len(suf)) = suf

TrimSuffix(s, suf) ==
    IF HasSuffix(s, suf) THEN Take(s, Len(s) - Len(suf)) ELSE s

\* Whether old occurs in s at position i.
OccursAt(s, old, i) ==
    /\ i + Len(old) - 1 <= Len(s)
    /\ \A k \in 1..Len(old) : s[i + k - 1] = old[k]

\* strings.ReplaceAll for a non-empty old: leftmost, non-overlapping.
RECURSIVE ReplaceAllFrom(_, _, _, _, _)
ReplaceAllFrom(s, old, new, i, out) ==
    IF i > Len(s) THEN out
    ELSE IF OccursAt(s, old, i)
    THEN ReplaceAllFrom(s, old, new, i + Len(old), out \o new)
    ELSE ReplaceAllFrom(s, old, new, i + 1, Append(out, s[i]))

ReplaceAll(s, old, new) == ReplaceAllFrom(s, old, new, 1, << >>)

\* unicode.ToLower on the model's characters
LowerOf ==
    [c \in Range(ByteOrder) |->
        IF c \in Range(Upper)
        THEN Lower[CHOOSE i \in 1..Len(Upper) : Upper[i] = c]
        ELSE c]

ToLower(s) == [i \in 1..Len(s) |-> LowerOf[s[i]]]

\* strings.TrimSpace: what lies between the first and the last non-space.
TrimSpace(s) ==
    LET kept == {i \in 1..Len(s) : s[i] \notin SpaceChars}
    IN  IF kept = {} THEN << >>
        ELSE SubSeq(s, CHOOSE i \in kept : \A j \in kept : i <= j,
                       CHOOSE i \in kept : \A j \in kept : j <= i)

(***************************************************************************)
(* regexp                                                                  *)
(***************************************************************************)
\* Length of the longest run of characters of class in s from position i.
RECURSIVE RunLen(_, _, _)
RunLen(s, class, i) ==
    IF i <= Len(s) /\ s[i] \in class THEN 1 + RunLen(s, class, i + 1) ELSE 0

\* Length of the match of \[[A-Za-z0-9_-]+\] in s at position i, 0 if none.
TagMatchLen(s, i) ==
    IF s[i] = "["
    THEN LET n == RunLen(s, TagChars, i + 1)
         IN  IF n >= 1 /\ i + n + 1 <= Len(s) /\ s[i + n + 1] = "]"
             THEN n + 2
             ELSE 0
    ELSE 0

\* regexp.MustCompile(`\[[A-Za-z0-9_-]+\]`).ReplaceAllString(s, "")
RECURSIVE RemoveTagsFrom(_, _, _)
RemoveTagsFrom(s, i, out) ==
    IF i > Len(s) THEN out
    ELSE LET n == TagMatchLen(s, i)
         IN  IF n > 0 THEN RemoveTagsFrom(s, i + n, out)
             ELSE RemoveTagsFrom(s, i + 1, Append(out, s[i]))

RemoveTags(s) == RemoveTagsFrom(s, 1, << >>)

\* regexp.MustCompile(`\s+`).ReplaceAllString(s, " ")
RECURSIVE CollapseSpacesFrom(_, _, _)
CollapseSpacesFrom(s, i, out) ==
    IF i > Len(s) THEN out
    ELSE LET n == RunLen(s, SpaceChars, i)
         IN  IF n > 0 THEN CollapseSpacesFrom(s, i + n, Append(out, " "))
             ELSE CollapseSpacesFrom(s, i + 1, Append(out, s[i]))

CollapseSpaces(s) == CollapseSpacesFrom(s, 1, << >>)

(***************************************************************************)
(* path/filepath (separator "/")                                           *)
(***************************************************************************)
\* Index of the last c in s, 0 if none.
RECURSIVE LastIndexFrom(_, _, _)
LastIndexFrom(s, c, i) ==
    IF i = 0 THEN 0
    ELSE IF s[i] = c THEN i
    ELSE LastIndexFrom(s, c, i - 1)

LastIndex(s, c) == LastIndexFrom(s, c, Len(s))

RECURSIVE TrimRightSlash(_)
TrimRightSlash(s) ==
    IF s # << >> /\ s[Len(s)] = "/"
    THEN TrimRightSlash(Take(s, Len(s) - 1))
    ELSE s

\* The elements of a path between separators, empty ones included.
RECURSIVE Split(_)
Split(s) ==
    LET i == LastIndex(s, "/")
    IN  IF i = 0 THEN <<s>> ELSE Split(Take(s, i - 1)) \o <<Drop(s, i)>>

RECURSIVE JoinSlash(_)
JoinSlash(elems) ==
    IF elems = << >> THEN << >>
    ELSE IF Len(elems) = 1 THEN elems[1]
    ELSE elems[1] \o <<"/">> \o JoinSlash(Tail(elems))

\* filepath.Clean's pass over the elements: drop "" and ".", resolve "..".
RECURSIVE CleanElems(_, _, _)
CleanElems(elems, out, rooted) ==
    IF elems = << >> THEN out
    ELSE LET e == Head(elems)
             rest == Tail(elems)
         IN  IF e = << >> \/ e = <<".">> THEN CleanElems(rest, out, rooted)
             ELSE IF e = <<".", ".">>
             THEN IF out # << >> /\ out[Len(out)] # <<".", ".">>
                  THEN CleanElems(rest, Take(out, Len(out) - 1), rooted)
                  ELSE IF rooted THEN CleanElems(rest, out, rooted)
                  ELSE CleanElems(rest, Append(out, e), rooted)
             ELSE CleanElems(rest, Append(out, e), rooted)

\* filepath.Clean
Clean(path) ==
    IF path = << >> THEN <<".">>
    ELSE LET rooted == Head(path) = "/"
             body == JoinSlash(CleanElems(Split(path), << >>, rooted))
         IN  IF rooted THEN <<"/">> \o body
             ELSE IF body = << >> THEN <<".">>
             ELSE body

\* filepath.Join
Join(dir, name) ==
    IF dir = << >> /\ name = << >> THEN << >>
    ELSE IF dir = << >> THEN Clean(name)
    ELSE IF name = << >> THEN Clean(dir)
    ELSE Clean(dir \o <<"/">> \o name)

\* filepath.Base
Base(path) ==
    IF path = << >> THEN <<".">>
    ELSE LET p == TrimRightSlash(path)
         IN  IF p = << >> THEN <<"/">>
             ELSE Drop(p, LastIndex(p, "/"))

\* filepath.Ext: the suffix from the last dot of the last element.
Ext(path) ==
    LET name == Drop(path, LastIndex(path, "/"))
        i == LastIndex(name, ".")
    IN  IF i = 0 THEN << >> ELSE Drop(name, i - 1)

\* filepath.Dir
Dir(path) == Clean(Take(path, LastIndex(path, "/")))

(***************************************************************************)
(* Title normalisation                                                     *)
(***************************************************************************)
YouTubeDualSuffix ==
    <<"-", "_", "Y", "o", "u", "T", "u", "b", "e", "-", "z", "h", "-", "C",
      "N", "-", "d", "u", "a", "l", "-", "d", "o", "u", "b", "l", "e">>

YouTubeSuffix == <<"_", "-", "_", "Y", "o", "u", "T", "u", "b", "e">>

normalizeTitle(title) ==
    LET t1 == RemoveTags(title)
        t2 == ReplaceAll(t1, YouTubeDualSuffix, << >>)
        t3 == ReplaceAll(t2, YouTubeSuffix, << >>)
        t4 == ReplaceAll(t3, <<"_">>, <<" ">>)
        t5 == ReplaceAll(t4, <<FullWidthQuestion>>, <<"?">>)
        t6 == TrimSpace(t5)
        t7 == CollapseSpaces(t6)
    IN  ToLower(t7)

(***************************************************************************)
(* Similarity                                                              *)
(***************************************************************************)
\* One cell of the table: dp[i][j] from dp[i-1][j-1], dp[i-1][j], dp[i][j-1].
\* LcsCell taking the cell above on a mismatch whatever the cell to the left.
LcsCellAbove(same, diag, up, left) ==
    IF same THEN diag + 1 ELSE up

LcsCell(same, diag, up, left) ==
    IF same THEN diag + 1
    ELSE IF up > left THEN up ELSE left

\* Row i of the table from row i-1 (prev); rows hold columns 0..n at 1..n+1.
RECURSIVE LcsRow(_, _, _, _)
LcsRow(prev, c, s2, row) ==
    LET j == Len(row)
    IN  IF j > Len(s2) THEN row
        ELSE LcsRow(prev, c, s2,
                    Append(row, LcsCell(c = s2[j], prev[j], prev[j + 1], row[j])))

RECURSIVE LcsRows(_, _, _, _)
LcsRows(s1, s2, i, prev) ==
    IF i > Len(s1) THEN prev
    ELSE LcsRows(s1, s2, i + 1, LcsRow(prev, s1[i], s2, <<0>>))

longestCommonSubsequence(s1, s2) ==
    LcsRows(s1, s2, 1, [j \in 1..(Len(s2) + 1) |-> 0])[Len(s2) + 1]

RECURSIVE Gcd(_, _)
Gcd(a, b) == IF b = 0 THEN a ELSE Gcd(b, a % b)

\* The float64 n/d, d > 0, as the reduced fraction.
Ratio(n, d) == LET g == Gcd(n, d) IN <<n \div g, d \div g>>

ScoreZero == Ratio(0, 1)

ScoreOne == Ratio(1, 1)

\* a > b and a >= b on scores
ScoreGT(a, b) == a[1] * b[2] > b[1] * a[2]

ScoreGE(a, b) == a[1] * b[2] >= b[1] * a[2]

\* calculateSimilarity dividing by the length of s1 whatever that of s2.
calculateSimilarityByFirst(s1, s2) ==
    IF s1 = s2 THEN ScoreOne
    ELSE LET lcs == longestCommonSubsequence(s1, s2)
         IN  IF Len(s1) = 0 THEN ScoreZero ELSE Ratio(lcs, Len(s1))

calculateSimilarity(s1, s2) ==
    IF s1 = s2 THEN ScoreOne
    ELSE LET lcs == longestCommonSubsequence(s1, s2)
             maxLen == IF Len(s2) > Len(s1) THEN Len(s2) ELSE Len(s1)
         IN  IF maxLen = 0 THEN ScoreZero ELSE Ratio(lcs, maxLen)

(***************************************************************************)
(* Best-match selection                                                    *)
(***************************************************************************)
\* The stem of a path: strings.TrimSuffix(filepath.Base(p), filepath.Ext(p))
BaseStem(path) == TrimSuffix(Base(path), Ext(path))

\* The update of (bestMatch, bestScore) by one candidate.
BetterScore(score, bestScore) == ScoreGT(score, bestScore)

\* The loop over the candidates: (bestMatch, bestScore) after videoFiles[i..],
\* scores[i] being the similarity of candidate i to the subtitle.
RECURSIVE BestMatchLoop(_, _, _, _, _)
BestMatchLoop(videoFiles, scores, i, bestMatch, bestScore) ==
    IF i > Len(videoFiles) THEN [path |-> bestMatch, score |-> bestScore]
    ELSE IF BetterScore(scores[i], bestScore)
    THEN BestMatchLoop(videoFiles, scores, i + 1, videoFiles[i], scores[i])
    ELSE BestMatchLoop(videoFiles, scores, i + 1, bestMatch, bestScore)

findBestMatch(subtitlePath, videoFiles) ==
    LET normalizedSubtitle == normalizeTitle(BaseStem(subtitlePath))
        scores ==
            [i \in 1..Len(videoFiles) |->
                calculateSimilarity(normalizedSubtitle,
                                    normalizeTitle(BaseStem(videoFiles[i])))]
    IN  BestMatchLoop(videoFiles, scores, 1, << >>, ScoreZero)

(***************************************************************************)
(* Configuration: the VideoSubtitleMatcher struct and its options          *)
(***************************************************************************)
DotExt(name) == <<".">> \o name

DefaultVideoExtensions ==
    <<DotExt(<<"m", "k", "v">>), DotExt(<<"m", "p", "4">>),
      DotExt(<<"a", "v", "i">>), DotExt(<<"m", "o", "v">>),
      DotExt(<<"w", "e", "b", "m">>)>>

DefaultSubtitleExtensions ==
    <<DotExt(<<"s", "r", "t">>), DotExt(<<"a", "s", "s">>),
      DotExt(<<"v", "t", "t">>)>>

\* The threshold n/10 as a float64.
Tenths(n) == Ratio(n, 10)

DefaultThreshold == Tenths(6)

\* threshold >= 0.0 && threshold <= 1.0
ThresholdInRange(threshold) ==
    ScoreGE(threshold, ScoreZero) /\ ScoreGE(ScoreOne, threshold)

\* The working directory given to New.
Directory == <<".">>

\* Arguments the options are called with.
ThresholdInputs == {Tenths(n) : n \in {-1, 0, 5, 6, 10, 11}}

VideoExtensionInputs == {DefaultVideoExtensions, <<DotExt(<<"m", "k", "v">>)>>}

SubtitleExtensionInputs ==
    {DefaultSubtitleExtensions, <<DotExt(<<"s", "r", "t">>)>>}

(***************************************************************************)
(* The directory tree                                                      *)
(***************************************************************************)
ReadmeVideo ==
    <<"H", "o", "w", "_", "t", "o", "_", "c", "o", "d", "e", "_",
      "[", "A", "B", "C", "1", "2", "3", "]", ".", "m", "k", "v">>

ReadmeSubtitle ==
    <<"H", "o", "w", "_", "t", "o", "_", "c", "o", "d", "e", "_",
      "-", "_", "Y", "o", "u", "T", "u", "b", "e", "-", "z", "h", "-", "C", "N", "-",
      "d", "u", "a", "l", "-", "d", "o", "u", "b", "l", "e", ".", "s", "r", "t">>

VideoA ==
    <<"a", ".", "m", "k", "v">>

VideoB ==
    <<"b", ".", "m", "k", "v">>

VideoNested ==
    <<"[", "[", "a", "]", "b", "]", ".", "m", "k", "v">>

SubtitleA ==
    <<"a", ".", "s", "r", "t">>

SubtitleAB ==
    <<"a", "b", ".", "s", "r", "t">>

SubtitleDeep ==
    <<"s", "/", "a", "b", ".", "A", "S", "S">>

Pool ==
    {ReadmeVideo, ReadmeSubtitle, VideoA, VideoB, VideoNested,
     SubtitleA, SubtitleAB, SubtitleDeep}

\* Most files in the directory tree when Match starts.
MaxFiles == 3

\* The directory trees a run starts from: at most MaxFiles files of the pool,
\* the two files of the README's example together or not at all.
InitialTrees ==
    {T \in SUBSET Pool :
        /\ Cardinality(T) <= MaxFiles
        /\ ReadmeVideo \in T <=> ReadmeSubtitle \in T}

\* A file system maps each existing path to the content it holds, named by
\* the path the content had when the run started.
InitialFileSystems == {[p \in T |-> p] : T \in InitialTrees}

VARIABLES
    vsm,            \* the VideoSubtitleMatcher
    fs,             \* the file system under Directory
    pc,             \* "new", "match", "done"
    videoFiles,     \* Match: the scanned video paths
    subtitleFiles,  \* Match: the scanned subtitle paths
    idx,            \* Match: position of the loop in subtitleFiles
    results,        \* Match: the results appended so far
    matchErr,       \* Match: the returned error is non-nil
    matched,        \* history: what findBestMatch returned, per iteration
    renameCalls     \* history: the os.Rename calls issued, in order

vars ==
    <<vsm, fs, pc, videoFiles, subtitleFiles, idx, results, matchErr,
      matched, renameCalls>>

matchVars ==
    <<videoFiles, subtitleFiles, idx, results, matchErr, matched, renameCalls>>

(***************************************************************************)
(* New and the options                                                     *)
(***************************************************************************)
\* The matcher New builds before it applies the options.
DefaultMatcher ==
    [videoExtensions |-> DefaultVideoExtensions,
     subtitleExtensions |-> DefaultSubtitleExtensions,
     directory |-> Directory,
     similarityThreshold |-> DefaultThreshold,
     recursive |-> TRUE,
     dryRun |-> TRUE,
     verbose |-> TRUE,
     ignoreExisting |-> FALSE]

Init ==
    /\ vsm = DefaultMatcher
    /\ fs \in InitialFileSystems
    /\ pc = "new"
    /\ videoFiles = << >>
    /\ subtitleFiles = << >>
    /\ idx = 0
    /\ results = << >>
    /\ matchErr = FALSE
    /\ matched = << >>
    /\ renameCalls = << >>

\* SetThreshold without the range check.
SetThresholdUnchecked(current, threshold) == threshold

\* The value SimilarityThreshold(threshold) leaves in the field.
SetThreshold(current, threshold) ==
    IF ThresholdInRange(threshold) THEN threshold ELSE current

VideoExtensions(extensions) ==
    /\ pc = "new"
    /\ vsm' = [vsm EXCEPT !.videoExtensions = extensions]
    /\ UNCHANGED <<fs, pc, matchVars>>

SubtitleExtensions(extensions) ==
    /\ pc = "new"
    /\ vsm' = [vsm EXCEPT !.subtitleExtensions = extensions]
    /\ UNCHANGED <<fs, pc, matchVars>>

SimilarityThreshold(threshold) ==
    /\ pc = "new"
    /\ vsm' = [vsm EXCEPT !.similarityThreshold = SetThreshold(@, threshold)]
    /\ UNCHANGED <<fs, pc, matchVars>>

Recursive(recursive) ==
    /\ pc = "new"
    /\ vsm' = [vsm EXCEPT !.recursive = recursive]
    /\ UNCHANGED <<fs, pc, matchVars>>

DryRun(dryRun) ==
    /\ pc = "new"
    /\ vsm' = [vsm EXCEPT !.dryRun = dryRun]
    /\ UNCHANGED <<fs, pc, matchVars>>

Verbose(verbose) ==
    /\ pc = "new"
    /\ vsm' = [vsm EXCEPT !.verbose = verbose]
    /\ UNCHANGED <<fs, pc, matchVars>>

IgnoreExisting(ignore) ==
    /\ pc = "new"
    /\ vsm' = [vsm EXCEPT !.ignoreExisting = ignore]
    /\ UNCHANGED <<fs, pc, matchVars>>

(***************************************************************************)
(* scanFiles                                                               *)
(***************************************************************************)
\* a < b on strings, byte by byte (sort.Strings)
RECURSIVE LessStr(_, _)
LessStr(a, b) ==
    IF b = << >> THEN FALSE
    ELSE IF a = << >> THEN TRUE
    ELSE IF Head(a) # Head(b) THEN Ord[Head(a)] < Ord[Head(b)]
    ELSE LessStr(Tail(a), Tail(b))

\* The order in which a walk of the tree visits two paths: the entries of
\* every directory are visited in the order of their names.
RECURSIVE ElemsLess(_, _)
ElemsLess(x, y) ==
    IF y = << >> THEN FALSE
    ELSE IF x = << >> THEN TRUE
    ELSE IF Head(x) # Head(y) THEN LessStr(Head(x), Head(y))
    ELSE ElemsLess(Tail(x), Tail(y))

VisitedBefore(p, q) == ElemsLess(Split(p), Split(q))

RECURSIVE InVisitOrder(_)
InVisitOrder(paths) ==
    IF paths = {} THEN << >>
    ELSE LET first == CHOOSE p \in paths :
                          \A q \in paths \ {p} : VisitedBefore(p, q)
         IN  <<first>> \o InVisitOrder(paths \ {first})

\* The regular files scanFiles looks at, in order: the whole tree when
\* recursive, the entries of the directory itself otherwise.
ScannedEntries(fsys, recursive) ==
    InVisitOrder({p \in DOMAIN fsys : recursive \/ LastIndex(p, "/") = 0})

HasExtension(path, extensions) == ToLower(Ext(path)) \in Range(extensions)

\* The scanned paths, in visit order, split by extension: in a recursive
\* scan a file taken as a video is not looked at as a subtitle.
Classified(m, full) ==
    LET IsVideo(path) == HasExtension(path, m.videoExtensions)
        IsSubtitle(path) ==
            /\ HasExtension(path, m.subtitleExtensions)
            /\ ~(m.recursive /\ IsVideo(path))
    IN  [videoFiles |-> SelectSeq(full, IsVideo),
         subtitleFiles |-> SelectSeq(full, IsSubtitle)]

scanFiles(m, fsys) ==
    LET entries == ScannedEntries(fsys, m.recursive)
    IN  Classified(m, [i \in 1..Len(entries) |-> Join(m.directory, entries[i])])

(***************************************************************************)
(* os.Rename                                                               *)
(***************************************************************************)
\* The file system after a successful rename: the content moves to newPath,
\* replacing whatever was there.
Renamed(fsys, oldPath, newPath) ==
    [p \in (DOMAIN fsys \ {oldPath}) \cup {newPath} |->
        IF p = newPath THEN fsys[oldPath] ELSE fsys[p]]

\* The outcomes a call can have: it fails when the source is missing and may
\* fail for reasons outside the model (permissions, a directory in the way).
RenameOutcomes(fsys, oldPath, newPath) ==
    {[ok |-> FALSE, fs |-> fsys]} \cup
    (IF oldPath \in DOMAIN fsys
     THEN {[ok |-> TRUE, fs |-> Renamed(fsys, oldPath, newPath)]}
     ELSE {})

(***************************************************************************)
(* Match                                                                   *)
(***************************************************************************)
\* Accepts with the bound exclusive.
AcceptsAbove(score, threshold) == ScoreGT(score, threshold)

\* score >= vsm.similarityThreshold
Accepts(score, threshold) == ScoreGE(score, threshold)

\* NewSubtitlePathOf with the extension taken from the video.
NewSubtitlePathVideoExt(subtitlePath, bestMatch) ==
    Join(Dir(subtitlePath), Base(bestMatch))

\* The path a subtitle is renamed to once matched with a video.
NewSubtitlePathOf(subtitlePath, bestMatch) ==
    LET videoBaseName == TrimSuffix(Base(bestMatch), Ext(bestMatch))
        subtitleExt == Ext(subtitlePath)
    IN  Join(Dir(subtitlePath), videoBaseName \o subtitleExt)

\* Skips without regard to ignoreExisting.
SkipsAlreadyNamed(ignoreExisting, subtitlePath, newSubtitlePath) ==
    subtitlePath = newSubtitlePath

\* Whether the loop skips the result of an accepted subtitle.
Skips(ignoreExisting, subtitlePath, newSubtitlePath) ==
    ignoreExisting /\ subtitlePath = newSubtitlePath

\* CallsRename without regard to dryRun.
CallsRenameInDryRun(dryRun, subtitlePath, newSubtitlePath) ==
    subtitlePath # newSubtitlePath

\* Whether os.Rename is called for an accepted, unskipped subtitle.
CallsRename(dryRun, subtitlePath, newSubtitlePath) ==
    ~dryRun /\ subtitlePath # newSubtitlePath

\* RenamedWithoutCall leaving the flag unset.
RenamedWithoutCallNever(dryRun) == FALSE

\* Renamed of an accepted, unskipped subtitle for which no call is made.
RenamedWithoutCall(dryRun) == ~dryRun

\* The result of an accepted subtitle after os.Rename returned.
RenameResult(accepted, ok) ==
    [accepted EXCEPT !.Renamed = ok, !.Error = ~ok]

\* AppendResult putting the result in front.
PrependResult(rs, result) == <<result>> \o rs

\* results = append(results, result)
AppendResult(rs, result) == Append(rs, result)

\* LoopEnds leaving the loop after a failed rename.
LoopEndsOnError(i, files, rs) ==
    i > Len(files) \/ (rs # << >> /\ rs[Len(rs)].Error)

\* Whether the loop over subtitleFiles is over before iteration i.
LoopEnds(i, files, rs) == i > Len(files)

\* scanFiles succeeds and the loop starts.
MatchScan ==
    /\ pc = "new"
    /\ \E scan \in {scanFiles(vsm, fs)} :
           /\ videoFiles' = scan.videoFiles
           /\ subtitleFiles' = scan.subtitleFiles
    /\ idx' = 1
    /\ pc' = "match"
    /\ UNCHANGED <<vsm, fs, results, matchErr, matched, renameCalls>>

\* scanFiles fails: Match returns nil and the wrapped error.
MatchScanFails ==
    /\ pc = "new"
    /\ matchErr' = TRUE
    /\ pc' = "done"
    /\ UNCHANGED <<vsm, fs, videoFiles, subtitleFiles, idx, results, matched,
                   renameCalls>>

\* One iteration of the loop over subtitleFiles.
MatchIteration ==
    /\ pc = "match"
    /\ ~LoopEnds(idx, subtitleFiles, results)
    /\ idx' = idx + 1
    /\ \E best \in {findBestMatch(subtitleFiles[idx], videoFiles)} :
       \E newSubtitlePath \in
              {NewSubtitlePathOf(subtitleFiles[idx], best.path)} :
       LET subtitlePath == subtitleFiles[idx]
           result == [SubtitlePath |-> subtitlePath,
                      VideoPath |-> best.path,
                      NewSubtitlePath |-> << >>,
                      Similarity |-> best.score,
                      Renamed |-> FALSE,
                      Error |-> FALSE]
           accepted == [result EXCEPT !.NewSubtitlePath = newSubtitlePath]
       IN  /\ matched' = Append(matched, [SubtitlePath |-> subtitlePath,
                                          VideoPath |-> best.path,
                                          Similarity |-> best.score])
           /\ IF ~Accepts(best.score, vsm.similarityThreshold)
              THEN /\ results' = AppendResult(results, result)
                   /\ UNCHANGED <<fs, renameCalls>>
              ELSE IF Skips(vsm.ignoreExisting, subtitlePath, newSubtitlePath)
              THEN UNCHANGED <<fs, results, renameCalls>>
              ELSE IF CallsRename(vsm.dryRun, subtitlePath, newSubtitlePath)
              THEN \E out \in RenameOutcomes(fs, subtitlePath, newSubtitlePath) :
                       /\ fs' = out.fs
                       /\ renameCalls' =
                              Append(renameCalls,
                                     [old |-> subtitlePath,
                                      new |-> newSubtitlePath,
                                      ok |-> out.ok])
                       /\ results' =
                              AppendResult(results, RenameResult(accepted, out.ok))
              ELSE /\ results' =
                          AppendResult(results,
                                       [accepted EXCEPT !.Renamed =
                                            RenamedWithoutCall(vsm.dryRun)])
                   /\ UNCHANGED <<fs, renameCalls>>
    /\ UNCHANGED <<vsm, pc, videoFiles, subtitleFiles, matchErr>>

\* The loop is over: Match returns results and a nil error.
MatchReturns ==
    /\ pc = "match"
    /\ LoopEnds(idx, subtitleFiles, results)
    /\ pc' = "done"
    /\ UNCHANGED <<vsm, fs, matchVars>>

Next ==
    \/ \E extensions \in VideoExtensionInputs : VideoExtensions(extensions)
    \/ \E extensions \in SubtitleExtensionInputs : SubtitleExtensions(extensions)
    \/ \E threshold \in ThresholdInputs : SimilarityThreshold(threshold)
    \/ \E recursive \in BOOLEAN : Recursive(recursive)
    \/ \E dryRun \in BOOLEAN : DryRun(dryRun)
    \/ \E verbose \in BOOLEAN : Verbose(verbose)
    \/ \E ignore \in BOOLEAN : IgnoreExisting(ignore)
    \/ MatchScan
    \/ MatchScanFails
    \/ MatchIteration
    \/ MatchReturns

Spec == Init /\ [][Next]_vars

(***************************************************************************)
(* Match with the default options on a directory of one subtitle and one   *)
(* video, the two stems being any two short strings of letters: the runs   *)
(* in which calculateSimilarity is applied to every pair of short titles.  *)
(***************************************************************************)
\* Longest stem of the directory's two files.
MaxTitleLen == 4

TitleLetters == {"a", "b"}

Titles == UNION {[1..n -> TitleLetters] : n \in 0..MaxTitleLen}

TitleFileSystems ==
    {[p \in {sub \o DotExt(<<"s", "r", "t">>),
              video \o DotExt(<<"m", "k", "v">>)} |-> p] :
        sub \in Titles, video \in Titles}

InitTitles ==
    /\ vsm = DefaultMatcher
    /\ fs \in TitleFileSystems
    /\ pc = "new"
    /\ videoFiles = << >>
    /\ subtitleFiles = << >>
    /\ idx = 0
    /\ results = << >>
    /\ matchErr = FALSE
    /\ matched = << >>
    /\ renameCalls = << >>

NextTitles ==
    \/ MatchScan
    \/ MatchIteration
    \/ MatchReturns

SpecTitles == InitTitles /\ [][NextTitles]_vars

(***************************************************************************)
(* Properties                                                              *)
(***************************************************************************)
Results == Range(results)

Matched == Range(matched)

\* The comparisons of two float64 scores, written out.
ScoreLess(a, b) == a[1] * b[2] < b[1] * a[2]

ScoreEq(a, b) == a[1] * b[2] = b[1] * a[2]

\* The similarity of a candidate video to a subtitle.
CandidateScore(subtitlePath, videoPath) ==
    calculateSimilarity(normalizeTitle(BaseStem(subtitlePath)),
                        normalizeTitle(BaseStem(videoPath)))

\* Candidate i is the first of the candidates with the greatest similarity.
FirstMaximal(subtitlePath, i) ==
    /\ \A j \in 1..Len(videoFiles) :
           ~ScoreLess(CandidateScore(subtitlePath, videoFiles[i]),
                      CandidateScore(subtitlePath, videoFiles[j]))
    /\ \A j \in 1..(i - 1) :
           ScoreLess(CandidateScore(subtitlePath, videoFiles[j]),
                     CandidateScore(subtitlePath, videoFiles[i]))

\* The os.Rename calls issued for a subtitle.
CallsFor(subtitlePath) ==
    {i \in 1..Len(renameCalls) : renameCalls[i].old = subtitlePath}

\* C1: findBestMatch returns the first candidate, in input order, whose
\* similarity to the subtitle is the greatest of all candidates, with that
\* similarity; for no candidates it returns the empty path and 0.0.
C1_FirstMaximalCandidate ==
    \A m \in Matched :
        IF videoFiles = << >>
        THEN m.VideoPath = << >> /\ ScoreEq(m.Similarity, <<0, 1>>)
        ELSE \E i \in 1..Len(videoFiles) :
                 /\ FirstMaximal(m.SubtitlePath, i)
                 /\ m.VideoPath = videoFiles[i]
                 /\ ScoreEq(m.Similarity,
                            CandidateScore(m.SubtitlePath, videoFiles[i]))

\* C2: normalising a title twice gives what normalising it once gives, for
\* every stem findBestMatch has normalised.
C2_NormalizeIdempotent ==
    \A p \in {m.SubtitlePath : m \in Matched} \cup
             {v \in Range(videoFiles) : matched # << >>} :
        normalizeTitle(normalizeTitle(BaseStem(p))) = normalizeTitle(BaseStem(p))

\* C3: a result has a new subtitle path exactly when its similarity is at
\* least the threshold; below the threshold it keeps the best score found,
\* has no new path, is not renamed, has no error, and no rename was asked.
C3_ThresholdInclusive ==
    \A r \in Results :
        LET below == ScoreLess(r.Similarity, vsm.similarityThreshold)
        IN  /\ r.NewSubtitlePath # << >> <=> ~below
            /\ below =>
                   /\ ~r.Renamed
                   /\ ~r.Error
                   /\ CallsFor(r.SubtitlePath) = {}
                   /\ \A v \in Range(videoFiles) :
                          ~ScoreLess(r.Similarity,
                                     CandidateScore(r.SubtitlePath, v))
                   /\ \/ ScoreEq(r.Similarity, <<0, 1>>)
                      \/ \E v \in Range(videoFiles) :
                             ScoreEq(r.Similarity,
                                     CandidateScore(r.SubtitlePath, v))

\* A run in which one subtitle scores exactly the threshold and is accepted
\* and another scores less, above zero, and is rejected.
C3_Witness ==
    /\ pc = "done"
    /\ \E r1, r2 \in Results :
           /\ ScoreEq(r1.Similarity, vsm.similarityThreshold)
           /\ r1.NewSubtitlePath # << >>
           /\ ScoreLess(r2.Similarity, vsm.similarityThreshold)
           /\ ScoreLess(<<0, 1>>, r2.Similarity)
           /\ r2.NewSubtitlePath = << >>

\* The README's subtitle once renamed: "How_to_code_[ABC123].srt"
ReadmeRenamed ==
    <<"H", "o", "w", "_", "t", "o", "_", "c", "o", "d", "e", "_",
      "[", "A", "B", "C", "1", "2", "3", "]", ".", "s", "r", "t">>

\* A file name placed in a directory, "." being the current one.
InDirectory(dir, name) ==
    IF dir = <<".">> THEN name ELSE dir \o <<"/">> \o name

\* The directory of the subtitle, the stem of the video, the extension of
\* the subtitle.
ExpectedNewPath(subtitlePath, videoPath) ==
    InDirectory(Dir(subtitlePath), BaseStem(videoPath) \o Ext(subtitlePath))

\* C4: the new path of an accepted subtitle is the subtitle's directory
\* joined with the matched video's base stem followed by the subtitle's own
\* extension; the README's subtitle scores 1.0 against the README's video
\* and becomes "How_to_code_[ABC123].srt".
C4_NewPathFromVideoStem ==
    \A r \in Results :
        /\ r.NewSubtitlePath # << >> =>
               /\ r.NewSubtitlePath =
                      ExpectedNewPath(r.SubtitlePath, r.VideoPath)
               /\ Dir(r.NewSubtitlePath) = Dir(r.SubtitlePath)
               /\ Ext(r.NewSubtitlePath) = Ext(r.SubtitlePath)
               /\ BaseStem(r.NewSubtitlePath) = BaseStem(r.VideoPath)
        /\ (r.SubtitlePath = ReadmeSubtitle /\ ReadmeVideo \in Range(videoFiles)) =>
               /\ r.VideoPath = ReadmeVideo
               /\ r.Similarity = <<1, 1>>
               /\ r.NewSubtitlePath = ReadmeRenamed

\* The README's subtitle has been renamed after the README's video.
C4_Witness ==
    /\ pc = "done"
    /\ ReadmeRenamed \in DOMAIN fs
    /\ fs[ReadmeRenamed] = ReadmeSubtitle
    /\ \E r \in Results :
           /\ r.SubtitlePath = ReadmeSubtitle
           /\ r.VideoPath = ReadmeVideo
           /\ r.NewSubtitlePath = ReadmeRenamed
           /\ r.Renamed

\* C5: in dry-run mode no rename call is issued, the file system is as it
\* was, and no result is renamed or carries an error.
C5_DryRunNoEffects ==
    vsm.dryRun =>
        /\ renameCalls = << >>
        /\ fs = [p \in DOMAIN fs |-> p]
        /\ DOMAIN fs \in InitialTrees
        /\ \A r \in Results : ~r.Renamed /\ ~r.Error

\* A finished dry run with one accepted subtitle that would be renamed and
\* one that already has its new name.
C5_Witness ==
    /\ vsm.dryRun
    /\ pc = "done"
    /\ \E r1, r2 \in Results :
           /\ r1.NewSubtitlePath # << >>
           /\ r1.NewSubtitlePath # r1.SubtitlePath
           /\ r2.NewSubtitlePath = r2.SubtitlePath

\* A processed subtitle that is accepted, already has its new name, and is
\* processed with ignoreExisting set.
Suppressed(m) ==
    /\ vsm.ignoreExisting
    /\ ~ScoreLess(m.Similarity, vsm.similarityThreshold)
    /\ ExpectedNewPath(m.SubtitlePath, m.VideoPath) = m.SubtitlePath

\* The subtitles the loop has gone through.
Processed == SubSeq(subtitleFiles, 1, idx - 1)

ResultPaths == [i \in 1..Len(results) |-> results[i].SubtitlePath]

\* C6: a processed subtitle has no result exactly when ignoreExisting is
\* set, its score reaches the threshold and its new path is its own path;
\* no rename is asked for it; without ignoreExisting every processed
\* subtitle has a result.
C6_IgnoreExistingSuppresses ==
    /\ [i \in 1..Len(matched) |-> matched[i].SubtitlePath] = Processed
    /\ \A m \in Matched :
           /\ Suppressed(m) <=> m.SubtitlePath \notin Range(ResultPaths)
           /\ Suppressed(m) => CallsFor(m.SubtitlePath) = {}
    /\ ~vsm.ignoreExisting => Len(results) = Len(Processed)

\* A finished run that renames files, with a suppressed subtitle and a
\* subtitle that has a result.
C6_Witness ==
    /\ pc = "done"
    /\ ~vsm.dryRun
    /\ \E m \in Matched : Suppressed(m)
    /\ results # << >>

\* C7: the subtitle paths of the results are the processed subtitles without
\* the suppressed ones, each once, in scan order.
C7_ResultsInScanOrder ==
    LET IsKept(path) == \E m \in Matched : m.SubtitlePath = path /\ ~Suppressed(m)
    IN  /\ ResultPaths = SelectSeq(Processed, IsKept)
        /\ \A i, j \in 1..Len(results) :
               ResultPaths[i] = ResultPaths[j] => i = j

\* A finished run with two results in scan order, the rename of the first of
\* which failed and the rename of the second of which succeeded.
C7_Witness ==
    /\ pc = "done"
    /\ Len(results) = 2
    /\ results[1].Error
    /\ results[2].Renamed
    /\ results[1].SubtitlePath = subtitleFiles[1]
    /\ results[2].SubtitlePath = subtitleFiles[2]

\* C8: a failed rename leaves its error in the result of its subtitle, which
\* is not renamed; the loop goes on to the last subtitle whatever failed,
\* and Match returns the results with a nil error.
C8_RenameFailureIsolated ==
    /\ \A i \in 1..Len(renameCalls) :
           ~renameCalls[i].ok =>
               \E r \in Results :
                   /\ r.SubtitlePath = renameCalls[i].old
                   /\ r.Error
                   /\ ~r.Renamed
    /\ \A r \in Results :
           r.Error => \E i \in CallsFor(r.SubtitlePath) : ~renameCalls[i].ok
    /\ pc = "match" => ~matchErr /\ idx <= Len(subtitleFiles) + 1
    /\ (pc = "done" /\ idx > 0) =>
           /\ ~matchErr
           /\ idx = Len(subtitleFiles) + 1
           /\ Len(matched) = Len(subtitleFiles)

\* A finished run in which the rename of one subtitle failed and a later
\* subtitle was renamed.
C8_Witness ==
    /\ pc = "done"
    /\ ~matchErr
    /\ \E i, j \in 1..Len(results) :
           /\ i < j
           /\ results[i].Error
           /\ results[j].Renamed
           /\ \E k \in CallsFor(results[j].SubtitlePath) : renameCalls[k].ok

InUnitInterval(t) == 0 <= t[1] /\ t[1] <= t[2]

\* C10: the threshold starts at 0.6 and always lies in [0,1]; applying
\* SimilarityThreshold(t) leaves t when t lies in [0,1] and the value held
\* before otherwise; no other step changes the threshold.
C10_ThresholdInUnitInterval ==
    /\ vsm.similarityThreshold = <<3, 5>>
    /\ [][/\ InUnitInterval(vsm.similarityThreshold)
          /\ InUnitInterval(vsm'.similarityThreshold)
          /\ \A t \in ThresholdInputs :
                 SimilarityThreshold(t) =>
                     vsm'.similarityThreshold =
                         IF InUnitInterval(t) THEN t
                         ELSE vsm.similarityThreshold
          /\ vsm'.similarityThreshold # vsm.similarityThreshold =>
                 \E t \in ThresholdInputs : SimilarityThreshold(t)]_vars

\* New has returned with a threshold an option has set.
C10_Witness ==
    /\ pc = "match"
    /\ vsm.similarityThreshold = <<1, 1>>
    /\ vsm.ignoreExisting

\* The titles calculateSimilarity was given for a subtitle and a candidate.
TitleOf(path) == normalizeTitle(BaseStem(path))

\* The pairs of titles findBestMatch has compared.
ComparedTitles ==
    {<<TitleOf(m.SubtitlePath), TitleOf(v)>> :
        m \in Matched, v \in Range(videoFiles)}

\* C11: the similarity of a to b is the similarity of b to a.
C11_SimilaritySymmetric ==
    \A t \in ComparedTitles :
        calculateSimilarity(t[1], t[2]) = calculateSimilarity(t[2], t[1])

\* Two titles of different lengths that share some but not all characters
\* have been compared.
C11_Witness ==
    /\ pc = "done"
    /\ \E t \in ComparedTitles :
           /\ Len(t[1]) < Len(t[2])
           /\ \E m \in Matched :
                  ScoreLess(<<0, 1>>, m.Similarity) /\ ScoreLess(m.Similarity, <<1, 1>>)

\* All subsequences of a string.
RECURSIVE Subsequences(_)
Subsequences(s) ==
    IF s = << >> THEN {<< >>}
    ELSE LET rest == Subsequences(Tail(s))
         IN  rest \cup {<<Head(s)>> \o t : t \in rest}

\* The length of a longest common subsequence, by enumeration.
LongestCommon(a, b) ==
    LET common == Subsequences(a) \cap Subsequences(b)
    IN  CHOOSE n \in 0..Len(a) :
            /\ \E c \in common : Len(c) = n
            /\ \A c \in common : Len(c) <= n

\* C12: the similarity of a and b is 1.0 when a = b and otherwise the length
\* of a longest common subsequence over the greater of the two lengths; it
\* lies in [0,1] and is 0.0 for a non-empty string and the empty one.
C12_SimilarityIsLcsRatio ==
    \A t \in ComparedTitles :
        \E sim \in {calculateSimilarity(t[1], t[2])} :
            /\ IF t[1] = t[2] THEN sim = <<1, 1>>
               ELSE LET longer == IF Len(t[1]) >= Len(t[2])
                                  THEN Len(t[1]) ELSE Len(t[2])
                    IN  sim[1] * longer = LongestCommon(t[1], t[2]) * sim[2]
            /\ sim[2] > 0
            /\ 0 <= sim[1] /\ sim[1] <= sim[2]
            /\ (t[1] # << >> /\ t[2] = << >>) => sim[1] = 0
            /\ (t[1] = << >> /\ t[2] # << >>) => sim[1] = 0
            /\ Len(videoFiles) = 1 =>
                   \A m \in Matched : ScoreEq(m.Similarity, sim)

\* A pair whose longest common subsequence is not a prefix, a suffix or a
\* substring of either title has been compared, as have the two empty
\* titles and a title and the empty one.
C12_Witness ==
    /\ pc = "done"
    /\ \E t \in ComparedTitles :
           /\ t[1] = <<"a", "b", "a", "b">>
           /\ t[2] = <<"b", "b", "a", "a">>
           /\ calculateSimilarity(t[1], t[2]) = <<1, 2>>

\* The os.Rename calls that succeeded.
SuccessfulCalls == {i \in 1..Len(renameCalls) : renameCalls[i].ok}

\* C13: in a run that is not a dry run no successful rename has for
\* destination the original path of another scanned subtitle or the
\* destination of another successful rename.
C13_RenamesNeverCollide ==
    ~vsm.dryRun =>
        \A i \in SuccessfulCalls :
            /\ \A s \in Range(subtitleFiles) :
                   s # renameCalls[i].old => renameCalls[i].new # s
            /\ \A j \in SuccessfulCalls :
                   j # i => renameCalls[j].new # renameCalls[i].new

\* C14: every accepted result names a scanned video, the matched video path
\* is empty only when no video was scanned, and no rename is asked for with
\* a name built from an empty video stem.
C14_AcceptedVideoScanned ==
    /\ \A r \in Results :
           /\ (r.NewSubtitlePath # << >> \/ r.Renamed \/ r.Error) =>
                  r.VideoPath \in Range(videoFiles)
           /\ r.VideoPath = << >> => videoFiles = << >>
    /\ \A m \in Matched : m.VideoPath = << >> => videoFiles = << >>
    /\ \A i \in 1..Len(renameCalls) :
           \E v \in Range(videoFiles) :
               /\ BaseStem(v) # << >>
               /\ renameCalls[i].new =
                      NewSubtitlePathOf(renameCalls[i].old, v)

=============================================================================
